---- MODULE Spec2Model ----
(***************************************************************************)
(* Model of sonic_warmreboot_blocker_checker.py: the net task that         *)
(* selects a version-specific exit-check script, transfers and runs it on  *)
(* a SONiC device, reads the JSON results file back through the terminal   *)
(* channel, and turns it into a boolean verdict.                           *)
(*                                                                         *)
(* Text (device output, file contents, log messages, version strings) is   *)
(* a sequence of atoms.  An atom is one character where the code looks at  *)
(* characters (braces, quotes, commas, colons, whitespace, digits) and a   *)
(* run of other characters elsewhere (a word, a prompt, the missing-file   *)
(* message).                                                               *)
(***************************************************************************)
EXTENDS Integers, Sequences, FiniteSets, TLC

VARIABLES
    pc,                 \* position in execute_sonic_warmreboot_blocker_checker
    handler,            \* "unbound" | "sonic" | "other": the local name `handler`, by device OS
    trace,              \* calls made on the handler / transfer provider, in order
    kusto,              \* messages handed to log_results_kusto, in order
    fcm,                \* change entries created by create_fcm_entry, in order
    fcm_entry_created,  \* the local of that name
    version_key,        \* the local of that name (<<>> while None)
    script_filename,    \* the local of that name (<<>> while None)
    exists,             \* what os.path.exists said of the two local scripts
    step_raised,        \* TRUE once a command inside run_bash_script's try raised
    parsed,             \* the call of parse_exit_check_results: what it read and returned
    execution_success,  \* the local of that name
    ret,                \* "none" | "true" | "false" | "raised": how the task ended
    dev,                \* the device's results file: [present, origin, content]
    sinkUp,             \* whether log_results_kusto returns (TRUE) or raises
    os_version          \* the local of that name in validate_device_and_get_version

vars == <<pc, handler, trace, kusto, fcm, fcm_entry_created, version_key,
          script_filename, exists, step_raised, parsed, execution_success, ret, dev, sinkUp,
          os_version>>

(***************************************************************************)
(* Text                                                                    *)
(***************************************************************************)
QUOTE == "\""
LBRACE == "{"
Whitespace == {" ", "\n"}
ControlChars == {"\n"}
Digits == {"0", "1", "2", "3", "4", "5", "6", "7", "8", "9"}
Literals == {"true", "false", "null"}

\* MISSING_FILE_ERROR = "No such file or directory"
MISSING_FILE_ERROR == "No such file or directory"

\* The first index from i on whose atom is in (inside = TRUE) or not in
\* (inside = FALSE) the set; Len(s) + 1 when there is none.
RECURSIVE Scan(_, _, _, _)
Scan(s, i, set, inside) ==
    IF i > Len(s) \/ (s[i] \in set) = inside THEN i ELSE Scan(s, i + 1, set, inside)

\* The last index down from i whose atom is not in the set; 0 when there is none.
RECURSIVE ScanBack(_, _, _)
ScanBack(s, i, set) ==
    IF i < 1 \/ s[i] \notin set THEN i ELSE ScanBack(s, i - 1, set)

\* str.find('{'): index of the first `{`, 0 when there is none (Python: -1).
Find(s, ch) ==
    LET i == Scan(s, 1, {ch}, TRUE)
    IN IF i > Len(s) THEN 0 ELSE i

\* substring test `x in s` for a one-atom x.
Contains(s, x) == \E i \in 1..Len(s) : s[i] = x

\* s[i:]
From(s, i) == SubSeq(s, i, Len(s))

\* str.strip(): leading and trailing whitespace removed.
Strip(s) == SubSeq(s, Scan(s, 1, Whitespace, FALSE), ScanBack(s, Len(s), Whitespace))

(***************************************************************************)
(* JSON values, as json.loads builds them.  One record shape for every     *)
(* value: t is the Python type, a the text of a str / int / literal,       *)
(* items the elements of a list, keys and vals the entries of a dict in    *)
(* insertion order.                                                        *)
(***************************************************************************)
JStr(a) == [t |-> "str", a |-> a, items |-> <<>>, keys |-> <<>>, vals |-> <<>>]
JNum(a) == [t |-> "int", a |-> a, items |-> <<>>, keys |-> <<>>, vals |-> <<>>]
JLit(x) == [t |-> "lit", a |-> <<x>>, items |-> <<>>, keys |-> <<>>, vals |-> <<>>]
JArr(xs) == [t |-> "list", a |-> <<>>, items |-> xs, keys |-> <<>>, vals |-> <<>>]
JObj(ks, vs) == [t |-> "dict", a |-> <<>>, items |-> <<>>, keys |-> ks, vals |-> vs]
EmptyDict == JObj(<<>>, <<>>)
JNone == JLit("null")

IndexOf(ks, k) == CHOOSE i \in 1..Len(ks) : ks[i] = k
HasKey(d, k) == \E i \in 1..Len(d.keys) : d.keys[i] = k

\* dict[k] = v while decoding: a repeated key keeps its place and takes the
\* later value.
DictPut(ks, vs, k, v) ==
    IF \E i \in 1..Len(ks) : ks[i] = k
    THEN [keys |-> ks, vals |-> [vs EXCEPT ![IndexOf(ks, k)] = v]]
    ELSE [keys |-> Append(ks, k), vals |-> Append(vs, v)]

\* Mutant: dict.get(k) without the default: None for an absent key.
DictGet_NoDefault(d, k, default) == IF HasKey(d, k) THEN d.vals[IndexOf(d.keys, k)] ELSE JNone

\* dict.get(k, default)
DictGet(d, k, default) == IF HasKey(d, k) THEN d.vals[IndexOf(d.keys, k)] ELSE default

\* Python truth value of a decoded value.
Truthy(v) ==
    CASE v.t = "str" -> v.a # <<>>
      [] v.t = "int" -> v.a # <<"0">>
      [] v.t = "lit" -> v.a = <<"true">>
      [] v.t = "list" -> v.items # <<>>
      [] v.t = "dict" -> v.keys # <<>>

(***************************************************************************)
(* json.loads: a decoder over the text.  A result is [ok, val, next]; next *)
(* is the index after the value.                                           *)
(***************************************************************************)
DecodeFail == [ok |-> FALSE, val |-> JNone, next |-> 0]
DecodeOk(v, n) == [ok |-> TRUE, val |-> v, next |-> n]

\* json.decoder.WHITESPACE.match(s, i).end()
SkipWs(s, i) == Scan(s, i, Whitespace, FALSE)

\* scanstring, s[i] being the opening quote: up to the next quote; a control
\* character inside the string is an error (strict mode).
ParseString(s, i) ==
    LET j == Scan(s, i + 1, {QUOTE}, TRUE)
    IN IF j > Len(s) THEN DecodeFail
       ELSE LET body == SubSeq(s, i + 1, j - 1)
            IN IF \E k \in 1..Len(body) : body[k] \in ControlChars
               THEN DecodeFail
               ELSE DecodeOk(JStr(body), j + 1)

\* NUMBER_RE, integers: 0, or a non-zero digit and the digits after it.
ParseNumber(s, i) ==
    IF s[i] = "0" THEN DecodeOk(JNum(<<"0">>), i + 1)
    ELSE LET e == Scan(s, i, Digits, FALSE)
         IN DecodeOk(JNum(SubSeq(s, i, e - 1)), e)

RECURSIVE ParseValue(_, _)
RECURSIVE ParseMembers(_, _, _, _)
RECURSIVE ParseElements(_, _, _)

\* JSONObject after the opening brace.
ParseObject(s, i) ==
    LET j == SkipWs(s, i)
    IN IF j <= Len(s) /\ s[j] = "}" THEN DecodeOk(EmptyDict, j + 1)
       ELSE ParseMembers(s, j, <<>>, <<>>)

\* JSONArray after the opening bracket.
ParseArray(s, i) ==
    LET j == SkipWs(s, i)
    IN IF j <= Len(s) /\ s[j] = "]" THEN DecodeOk(JArr(<<>>), j + 1)
       ELSE ParseElements(s, j, <<>>)

\* scan_once
ParseValue(s, i) ==
    IF i > Len(s) THEN DecodeFail
    ELSE CASE s[i] = QUOTE -> ParseString(s, i)
           [] s[i] = LBRACE -> ParseObject(s, i + 1)
           [] s[i] = "[" -> ParseArray(s, i + 1)
           [] s[i] \in Literals -> DecodeOk(JLit(s[i]), i + 1)
           [] s[i] \in Digits -> ParseNumber(s, i)
           [] OTHER -> DecodeFail

\* the members of an object from index j: "key" : value, then `,` or `}`.
ParseMembers(s, j, ks, vs) ==
    IF j > Len(s) \/ s[j] # QUOTE THEN DecodeFail
    ELSE LET k == ParseString(s, j)
         IN IF ~k.ok THEN DecodeFail
            ELSE LET c == SkipWs(s, k.next)
                 IN IF c > Len(s) \/ s[c] # ":" THEN DecodeFail
                    ELSE LET v == ParseValue(s, SkipWs(s, c + 1))
                         IN IF ~v.ok THEN DecodeFail
                            ELSE LET e == SkipWs(s, v.next)
                                     d == DictPut(ks, vs, k.val.a, v.val)
                                 IN IF e > Len(s) THEN DecodeFail
                                    ELSE IF s[e] = "}"
                                         THEN DecodeOk(JObj(d.keys, d.vals), e + 1)
                                    ELSE IF s[e] = ","
                                         THEN ParseMembers(s, SkipWs(s, e + 1), d.keys, d.vals)
                                    ELSE DecodeFail

\* the elements of an array from index j: value, then `,` or `]`.
ParseElements(s, j, xs) ==
    LET v == ParseValue(s, j)
    IN IF ~v.ok THEN DecodeFail
       ELSE LET e == SkipWs(s, v.next)
            IN IF e > Len(s) THEN DecodeFail
               ELSE IF s[e] = "]" THEN DecodeOk(JArr(Append(xs, v.val)), e + 1)
               ELSE IF s[e] = "," THEN ParseElements(s, SkipWs(s, e + 1), Append(xs, v.val))
               ELSE DecodeFail

\* json.loads(s): one value, whitespace around it, nothing after it.
JsonLoads(s) ==
    LET v == ParseValue(s, SkipWs(s, 1))
    IN IF ~v.ok THEN DecodeFail
       ELSE IF SkipWs(s, v.next) # Len(s) + 1 THEN DecodeFail
       ELSE v

(***************************************************************************)
(* Formatting: str() / repr() of a decoded value inside an f-string, and   *)
(* json.dumps with its default separators.                                 *)
(***************************************************************************)
RECURSIVE JoinWith(_, _)
JoinWith(parts, sep) ==
    IF parts = <<>> THEN <<>>
    ELSE IF Len(parts) = 1 THEN parts[1]
    ELSE parts[1] \o sep \o JoinWith(Tail(parts), sep)

PyLiteral(x) ==
    CASE x = "null" -> "None" [] x = "true" -> "True" [] x = "false" -> "False"

RECURSIVE PyRepr(_)
PyRepr(v) ==
    CASE v.t = "str" -> <<"'">> \o v.a \o <<"'">>
      [] v.t = "int" -> v.a
      [] v.t = "lit" -> <<PyLiteral(v.a[1])>>
      [] v.t = "list" ->
            <<"[">> \o JoinWith([i \in 1..Len(v.items) |-> PyRepr(v.items[i])], <<",", " ">>)
                    \o <<"]">>
      [] v.t = "dict" ->
            <<"{">> \o JoinWith([i \in 1..Len(v.keys) |->
                                    <<"'">> \o v.keys[i] \o <<"'", ":", " ">>
                                            \o PyRepr(v.vals[i])], <<",", " ">>)
                    \o <<"}">>

\* f"{v}"
PyStr(v) == IF v.t = "str" THEN v.a ELSE PyRepr(v)

RECURSIVE JsonDumps(_)
JsonDumps(v) ==
    CASE v.t = "str" -> <<QUOTE>> \o v.a \o <<QUOTE>>
      [] v.t = "int" -> v.a
      [] v.t = "lit" -> v.a
      [] v.t = "list" ->
            <<"[">> \o JoinWith([i \in 1..Len(v.items) |-> JsonDumps(v.items[i])], <<",", " ">>)
                    \o <<"]">>
      [] v.t = "dict" ->
            <<"{">> \o JoinWith([i \in 1..Len(v.keys) |->
                                    <<QUOTE>> \o v.keys[i] \o <<QUOTE, ":", " ">>
                                              \o JsonDumps(v.vals[i])], <<",", " ">>)
                    \o <<"}">>

(***************************************************************************)
(* parse_exit_check_results                                                *)
(***************************************************************************)
EXIT_CHECK_RESULTS_JSON == "/tmp/exit_check_validation_results.json"

K_overall_status == <<"overall_status">>
K_total_failures == <<"total_failures">>
K_failed_validations == <<"failed_validations">>
K_timestamp == <<"timestamp">>
K_exit_code == <<"exit_code">>
K_message == <<"message">>

\* Mutant: only the empty output counts as a missing file.
ResultsFileMissing_EmptyOnly(json_output) == json_output = <<>>

\* `not json_output or MISSING_FILE_ERROR in json_output`, on the output as read.
ResultsFileMissing(json_output) ==
    json_output = <<>> \/ Contains(json_output, MISSING_FILE_ERROR)

\* Mutant: json.loads on the output as read (the parser before the strip step was added).
IsolatePayload_NoStrip(json_output) == json_output

\* json_start = json_output.find('{'); if json_start != -1: json_output[json_start:].strip()
IsolatePayload(json_output) ==
    LET json_start == Find(json_output, LBRACE)
    IN IF json_start # 0 THEN Strip(From(json_output, json_start)) ELSE json_output

\* Mutant: anything but "FAILED" counts as success.
IsPassed_NotFailed(overall_status) == overall_status # JStr(<<"FAILED">>)

\* overall_status == "PASSED"
IsPassed(overall_status) == overall_status = JStr(<<"PASSED">>)

\* overall_status == "FAILED" and failed_validations
HasFailureDetails(overall_status, failed_validations) ==
    overall_status = JStr(<<"FAILED">>) /\ Truthy(failed_validations)

\* the list comprehension over failed_validations raises unless it is a list of dicts
\* (v.get on a str, an int, a list or None; iteration over an int or a bool).
FailureDetailsRaise(failed_validations) ==
    ~(failed_validations.t = "list"
      /\ \A i \in 1..Len(failed_validations.items) : failed_validations.items[i].t = "dict")

\* Mutant: the detail lines in the reverse of the order of failed_validations.
FailureDetails_Reversed(failed_validations) ==
    JoinWith([i \in 1..Len(failed_validations.items) |->
                LET v == failed_validations.items[Len(failed_validations.items) + 1 - i]
                IN <<"  - Exit Code ">> \o PyStr(DictGet(v, K_exit_code, JNone))
                       \o <<": ">> \o PyStr(DictGet(v, K_message, JNone))],
             <<"\n">>)

\* "\n".join([f"  - Exit Code {v.get('exit_code')}: {v.get('message')}" for v in failed_validations])
FailureDetails(failed_validations) ==
    JoinWith([i \in 1..Len(failed_validations.items) |->
                <<"  - Exit Code ">> \o PyStr(DictGet(failed_validations.items[i], K_exit_code, JNone))
                    \o <<": ">> \o PyStr(DictGet(failed_validations.items[i], K_message, JNone))],
             <<"\n">>)

MsgResultsNotFound == <<"Results file not found: ", EXIT_CHECK_RESULTS_JSON>>
MsgReadFailed == <<"Failed to read results file: ", "<exception>">>
MsgDecodeFailed(json_output) ==
    <<"Failed to parse JSON results: ", "<exception>", ". Raw output: ">> \o json_output
MsgSummary(overall_status, total_failures, timestamp) ==
    <<"Exit check results - Status: ">> \o PyStr(overall_status)
        \o <<", Total Failures: ">> \o PyStr(total_failures)
        \o <<", Timestamp: ">> \o PyStr(timestamp)
MsgFailureDetails(total_failures, failure_details) ==
    <<"Exit check failed with ">> \o PyStr(total_failures) \o <<" failure(s):", "\n">>
        \o failure_details

\* The outcome of one call: what it returns (success, results), whether json.loads
\* was reached and how it ended, the messages it hands to the log sink, and the
\* output it read.  chan is what send_command did: [raised, out].
ParseOutcome(success, results, decode, logs, chan) ==
    [success |-> success, results |-> results, decode |-> decode, logs |-> logs,
     output |-> IF chan.raised THEN <<>> ELSE chan.out]

\* The field extraction and the logging, for a decoded dict.
ParseReport(results, chan) ==
    LET overall_status == DictGet(results, K_overall_status, JStr(<<"UNKNOWN">>))
        total_failures == DictGet(results, K_total_failures, JNum(<<"0">>))
        failed_validations == DictGet(results, K_failed_validations, JArr(<<>>))
        timestamp == DictGet(results, K_timestamp, JStr(<<"N/A">>))
        summary == MsgSummary(overall_status, total_failures, timestamp)
    IN IF HasFailureDetails(overall_status, failed_validations)
       THEN IF FailureDetailsRaise(failed_validations)
            THEN ParseOutcome(FALSE, EmptyDict, "ok", <<summary, MsgReadFailed>>, chan)
            ELSE ParseOutcome(IsPassed(overall_status), results, "ok",
                              <<summary,
                                MsgFailureDetails(total_failures,
                                                  FailureDetails(failed_validations))>>,
                              chan)
       ELSE ParseOutcome(IsPassed(overall_status), results, "ok", <<summary>>, chan)

\* Mutant: a decoded value that is not a dict is handed back as the report.
ParseDecoded_ReturnsValue(results, chan) ==
    IF results.t # "dict"
    THEN ParseOutcome(FALSE, results, "ok", <<MsgReadFailed>>, chan)
    ELSE ParseReport(results, chan)

\* What follows a successful json.loads: results.get raises AttributeError on a
\* value that is not a dict, which the outer handler turns into (False, {}).
ParseDecoded(results, chan) ==
    IF results.t # "dict"
    THEN ParseOutcome(FALSE, EmptyDict, "ok", <<MsgReadFailed>>, chan)
    ELSE ParseReport(results, chan)

parse_exit_check_results(chan) ==
    IF chan.raised
    THEN ParseOutcome(FALSE, EmptyDict, "none", <<MsgReadFailed>>, chan)
    ELSE IF ResultsFileMissing(chan.out)
    THEN ParseOutcome(FALSE, EmptyDict, "none", <<MsgResultsNotFound>>, chan)
    ELSE LET json_output == IsolatePayload(chan.out)
             d == JsonLoads(json_output)
         IN IF ~d.ok
            THEN ParseOutcome(FALSE, EmptyDict, "error", <<MsgDecodeFailed(json_output)>>, chan)
            ELSE ParseDecoded(d.val, chan)

(***************************************************************************)
(* Version resolution and the script catalog                               *)
(***************************************************************************)
Script201811 == <<"exit_check_", "2", "0", "1", "8", "1", "1", ".sh">>
Script202305 == <<"exit_check_", "2", "0", "2", "3", "0", "5", ".sh">>
CommonScript == <<"exit_check_", "common", ".sh">>

\* The files of changes/sonic_warmreboot_blocker_checker when the module is loaded.
ScriptDirListing == {Script201811, Script202305, CommonScript}

\* glob exit_check_*.sh, then re.search(r"exit_check_(\d{6})\.sh", filename).group(1);
\* <<>> when the file is not matched.
FileVersion(filename) ==
    LET hits == {i \in 1..(Len(filename) - 7) :
                    /\ filename[i] = "exit_check_"
                    /\ \A j \in 1..6 : filename[i + j] \in Digits
                    /\ filename[i + 7] = ".sh"}
    IN IF Len(filename) >= 2 /\ filename[1] = "exit_check_"
          /\ filename[Len(filename)] = ".sh" /\ hits # {}
       THEN LET i == CHOOSE h \in hits : \A k \in hits : h <= k
            IN SubSeq(filename, i + 1, i + 6)
       ELSE <<>>

\* build_version_script_map(): version -> filename.
VERSION_SCRIPT_MAP ==
    LET matched == {f \in ScriptDirListing : FileVersion(f) # <<>>}
    IN [v \in {FileVersion(f) : f \in matched} |->
            CHOOSE f \in matched : FileVersion(f) = v]

\* Mutant: the last six digits in a row instead of the first.
extract_version_last_match(os_version_string) ==
    LET hits == {i \in 1..(Len(os_version_string) - 5) :
                    \A j \in 0..5 : os_version_string[i + j] \in Digits}
    IN IF hits = {} THEN <<>>
       ELSE LET i == CHOOSE h \in hits : \A k \in hits : h >= k
            IN SubSeq(os_version_string, i, i + 5)

\* re.search(r"(\d{6})", os_version_string): the first six digits in a row; <<>> for None.
extract_version_from_os_version(os_version_string) ==
    LET hits == {i \in 1..(Len(os_version_string) - 5) :
                    \A j \in 0..5 : os_version_string[i + j] \in Digits}
    IN IF hits = {} THEN <<>>
       ELSE LET i == CHOOSE h \in hits : \A k \in hits : h <= k
            IN SubSeq(os_version_string, i, i + 5)

\* The OS version strings a handler may report.
OsVersions ==
    { <<"SONiC.", "2", "0", "1", "8", "1", "1", "3", "0", ".", "1", "0", "1">>,
      <<"SONiC.", "2", "0", "2", "3", "0", "5", "3", "1", ".", "0", "1">>,
      <<"SONiC.", "2", "0", "2", "4", "0", "5", "1", "0">>,
      <<"SONiC.", "master", ".", "1", "2", "3", "4", "5", "-", "a">>,
      <<>> }

\* A read of handler.running_os_version / handler.os_version that raised.
RAISED == <<"<raised>">>
VersionReads == OsVersions \cup {RAISED}

(***************************************************************************)
(* Remote commands and log messages of the task                            *)
(***************************************************************************)
TmpPath(filename) == <<"/tmp/">> \o filename
CmdRm(path) == <<"sudo rm -f ">> \o path
CmdChmod(path) == <<"sudo chmod +x ">> \o path
CmdBash(path) == <<"sudo bash ">> \o path
CmdCat == <<"sudo cat ", EXIT_CHECK_RESULTS_JSON>>
CmdRmResults == <<"sudo rm -f ", EXIT_CHECK_RESULTS_JSON>>

\* One call on the handler, its connection or the transfer provider.
Ev(site, call, arg, raised) == [site |-> site, call |-> call, arg |-> arg, raised |-> raised]

MsgUnexpectedOs == <<"Unexpected device OS type. Only SONiC is supported.">>
MsgUnparseable(os_version_string) ==
    <<"Unable to parse version from OS version string: ">> \o os_version_string
MsgUnsupported(key) ==
    <<"Unsupported OS version: ">> \o key \o <<". Supported versions: ", "<keys>">>
MsgValidationFailed == <<"Device validation failed or unsupported version">>
MsgNoMapping(key) == <<"No script mapping found for version: ">> \o key
MsgSelectFailed == <<"Failed to select appropriate script">>
MsgFcmFailed == <<"Failed to create FCM entry for device:", "<device>", ". task_name:", "<task>">>
MsgScriptNotFound(f) == <<"Script file not found at: ">> \o f
MsgCommonNotFound == <<"Common script file not found at: ">> \o CommonScript
MsgScpFailed == <<"SCP transfer failed with exception: ", "<exception>">>
MsgExecFailed == <<"Executing bash script failed with exception: ", "<exception>">>
MsgScriptPassed(f, results) ==
    <<"Bash script ">> \o f \o <<" successfully completed with PASSED status. Results: ">>
        \o JsonDumps(results)
MsgScriptFailedWith(f, results) ==
    <<"Bash script ">> \o f \o <<" completed with FAILED status. Results: ">>
        \o JsonDumps(results)
MsgScriptFailed(f) == <<"Bash script ">> \o f \o <<" completed with FAILED status">>
MsgCleanupFailed == <<"Failed to cleanup files: ", "<exception>">>
MsgFinalSuccess(f, key) == <<"Successfully executed ">> \o f \o <<" for version ">> \o key
MsgFinalFailure(f) == <<"Failed to execute ">> \o f
MsgTaskException == <<"Task failed with exception: ", "<exception>">>

(***************************************************************************)
(* The device and the terminal channel                                     *)
(***************************************************************************)
Q(k) == <<QUOTE, k, QUOTE>>
Pair(k, v) == [k |-> k, v |-> v]
MkObj(pairs) == JObj([i \in 1..Len(pairs) |-> pairs[i].k], [i \in 1..Len(pairs) |-> pairs[i].v])

Validation30 ==
    MkObj(<<Pair(K_exit_code, JNum(<<"3", "0">>)), Pair(K_message, JStr(<<"Leftover tunnel">>))>>)
Validation31 ==
    MkObj(<<Pair(K_exit_code, JNum(<<"3", "1">>)), Pair(K_message, JStr(<<"BGP down">>))>>)

PassedReport ==
    MkObj(<<Pair(K_timestamp, JStr(<<"2025-11-18 22:54:32 UTC">>)),
            Pair(K_overall_status, JStr(<<"PASSED">>)),
            Pair(K_total_failures, JNum(<<"0">>)),
            Pair(K_failed_validations, JArr(<<>>))>>)
FailedReport ==
    MkObj(<<Pair(K_timestamp, JStr(<<"2025-11-18 22:54:32 UTC">>)),
            Pair(K_overall_status, JStr(<<"FAILED">>)),
            Pair(K_total_failures, JNum(<<"1">>)),
            Pair(K_failed_validations, JArr(<<Validation30>>))>>)

\* A results file cut short while it was being written.
Truncated(text) == SubSeq(text, 1, Len(text) - 1)

\* What the results file may hold after a script run (or from an earlier run).
FileContents ==
    { JsonDumps(PassedReport), JsonDumps(FailedReport), JsonDumps(EmptyDict),
      Truncated(JsonDumps(PassedReport)), <<"garbage no brace">>, <<>> }

Absent == [present |-> FALSE, origin |-> "none", content |-> <<>>]
File(origin, content) == [present |-> TRUE, origin |-> origin, content |-> content]

\* What the channel puts before the output of a command: nothing, or the prompt
\* and the echoed command.
EchoPrefixes == { <<>>, <<"dsm06-0102-0317-03t0# ">> \o CmdCat \o <<"\n">> }

\* The output of `sudo cat <results file>` on the device.
CatText(d) ==
    IF d.present THEN d.content
    ELSE <<"cat: ", EXIT_CHECK_RESULTS_JSON, ": ", MISSING_FILE_ERROR>>

\* `rm -f <results file>`: done when the command returned; when send_command
\* raised the command may or may not have run.
AfterRm(d, raised) == IF raised THEN {d, Absent} ELSE {Absent}

\* `sudo bash <script>`: the script writes a results file, or ends before it
\* does, whether or not send_command returned.
AfterRun(d) == {d} \cup {File("fresh", c) : c \in FileContents}

Unchecked == [checked |-> FALSE, script |-> FALSE, common |-> FALSE]

NotParsed ==
    [called |-> FALSE, escaped |-> FALSE, decode |-> "none", success |-> FALSE,
     results |-> EmptyDict, output |-> <<>>, origin |-> "none"]

(***************************************************************************)
(* execute_sonic_warmreboot_blocker_checker, one action per step           *)
(***************************************************************************)
Init ==
    /\ pc = "get_handler"
    /\ handler = "unbound"
    /\ trace = <<>>
    /\ kusto = <<>>
    /\ fcm = <<>>
    /\ fcm_entry_created = FALSE
    /\ version_key = <<>>
    /\ script_filename = <<>>
    /\ exists = Unchecked
    /\ step_raised = FALSE
    /\ parsed = NotParsed
    /\ execution_success = FALSE
    /\ ret = "none"
    /\ dev \in {Absent} \cup {File("stale", c) : c \in FileContents}
    /\ sinkUp = TRUE
    /\ os_version = <<>>

\* log_results / log_results_err / log_results_kusto: the sink takes the
\* messages, or its first call raises.
SinkTakes(msgs) == sinkUp \/ msgs = <<>>

\* Where an exception raised inside the task's try block is handled.
TopLevelHandler == "except"
\* Mutant: a `return` leaves the task at once, past the finally clause.
AfterReturn_SkipsFinally == "done"

\* Where a `return` inside the try block goes: the finally clause.
AfterReturn == "finally"

\* net_devices2.get_device_handler(device_name)
GetHandler ==
    /\ pc = "get_handler"
    /\ \E outcome \in {"raise", "sonic", "other"} :
          IF outcome = "raise"
          THEN pc' = TopLevelHandler /\ UNCHANGED handler
          ELSE pc' = "connect" /\ handler' = outcome
    /\ UNCHANGED <<trace, kusto, fcm, fcm_entry_created, version_key, script_filename,
                   exists, step_raised, parsed, execution_success, ret, dev, sinkUp, os_version>>

\* handler.connect(read_write=read_write)
Connect ==
    /\ pc = "connect"
    /\ \E raised \in BOOLEAN :
          /\ trace' = Append(trace, Ev("task", "connect", <<>>, raised))
          /\ pc' = IF raised THEN TopLevelHandler ELSE "validate"
    /\ UNCHANGED <<handler, kusto, fcm, fcm_entry_created, version_key, script_filename,
                   exists, step_raised, parsed, execution_success, ret, dev, sinkUp, os_version>>

\* Mutant: every extracted version key counts as supported.
KeySupported_Any(key) == TRUE

\* version_key in VERSION_SCRIPT_MAP
KeySupported(key) == key \in DOMAIN VERSION_SCRIPT_MAP

\* validate_device_and_get_version: [raised, reads, valid, key, logs]
ValidateOutcome(kind, running, fallback) ==
    IF kind # "sonic"
    THEN [raised |-> FALSE, reads |-> <<>>, valid |-> FALSE, key |-> <<>>,
          logs |-> <<MsgUnexpectedOs>>]
    ELSE LET reads == IF running = RAISED
                      THEN <<Ev("validate", "running_os_version", <<>>, TRUE),
                             Ev("validate", "os_version", <<>>, fallback = RAISED)>>
                      ELSE <<Ev("validate", "running_os_version", <<>>, FALSE)>>
             read == IF running = RAISED THEN fallback ELSE running
         IN IF read = RAISED
            THEN [raised |-> TRUE, reads |-> reads, valid |-> FALSE, key |-> <<>>,
                  logs |-> <<>>]
            ELSE LET key == extract_version_from_os_version(read)
                 IN IF key = <<>>
                    THEN [raised |-> FALSE, reads |-> reads, valid |-> FALSE, key |-> <<>>,
                          logs |-> <<MsgUnparseable(read)>>]
                    ELSE IF ~KeySupported(key)
                    THEN [raised |-> FALSE, reads |-> reads, valid |-> FALSE, key |-> <<>>,
                          logs |-> <<MsgUnsupported(key)>>]
                    ELSE [raised |-> FALSE, reads |-> reads, valid |-> TRUE, key |-> key,
                          logs |-> <<>>]

\* is_valid, version_key = validate_device_and_get_version(...); if not is_valid: return False
\* reads: what the two version attributes may give.  os_version starts as "" and
\* takes what was read; the fallback attribute is read only when the first raised.
ValidateFrom(reads) ==
    /\ pc = "validate"
    /\ \E running \in reads :
       \E fallback \in IF running = RAISED THEN reads ELSE {RAISED} :
          LET o == ValidateOutcome(handler, running, fallback)
              read == IF running = RAISED THEN fallback ELSE running
              logs == IF o.valid THEN <<>> ELSE o.logs \o <<MsgValidationFailed>>
          IN /\ trace' = trace \o o.reads
             /\ os_version' = IF handler # "sonic" \/ read = RAISED THEN <<>> ELSE read
             /\ IF o.raised \/ ~SinkTakes(logs)
                THEN pc' = TopLevelHandler /\ UNCHANGED <<kusto, version_key, ret>>
                ELSE IF o.valid
                THEN pc' = "select" /\ version_key' = o.key /\ UNCHANGED <<kusto, ret>>
                ELSE /\ pc' = AfterReturn
                     /\ ret' = "false"
                     /\ kusto' = kusto \o logs
                     /\ UNCHANGED version_key
    /\ UNCHANGED <<handler, fcm, fcm_entry_created, script_filename, exists, step_raised,
                   parsed, execution_success, dev, sinkUp>>

Validate == ValidateFrom(VersionReads)

\* VERSION_SCRIPT_MAP.get(version_key)
select_script_for_version(key) ==
    IF key \in DOMAIN VERSION_SCRIPT_MAP THEN VERSION_SCRIPT_MAP[key] ELSE <<>>

\* script_filename = select_script_for_version(...); if not script_filename: return False
SelectScript ==
    /\ pc = "select"
    /\ LET f == select_script_for_version(version_key)
           logs == <<MsgNoMapping(version_key), MsgSelectFailed>>
       IN IF f # <<>>
          THEN pc' = "fcm_open" /\ script_filename' = f /\ UNCHANGED <<kusto, ret>>
          ELSE IF SinkTakes(logs)
          THEN /\ pc' = AfterReturn
               /\ ret' = "false"
               /\ kusto' = kusto \o logs
               /\ UNCHANGED script_filename
          ELSE pc' = TopLevelHandler /\ UNCHANGED <<kusto, ret, script_filename>>
    /\ UNCHANGED <<handler, trace, fcm, fcm_entry_created, version_key, exists, step_raised,
                   parsed, execution_success, dev, sinkUp, os_version>>

\* create_fcm_entry(..., state): the change entry is created, or the client says it
\* was not (log_results_err), or the client raises.
FcmOutcomes == {"created", "not_created", "raise"}
FcmLogs(outcome) == IF outcome = "not_created" THEN <<MsgFcmFailed>> ELSE <<>>

\* fcm_entry_created = create_fcm_entry(..., state="ChangeInProcess")
OpenChangeRecord ==
    /\ pc = "fcm_open"
    /\ \E outcome \in FcmOutcomes :
          IF outcome = "raise" \/ ~SinkTakes(FcmLogs(outcome))
          THEN pc' = TopLevelHandler /\ UNCHANGED <<fcm, fcm_entry_created, kusto>>
          ELSE /\ pc' = "check_assets"
               /\ fcm_entry_created' = (outcome = "created")
               /\ fcm' = IF outcome = "created" THEN Append(fcm, "ChangeInProcess") ELSE fcm
               /\ kusto' = kusto \o FcmLogs(outcome)
    /\ UNCHANGED <<handler, trace, version_key, script_filename, exists, step_raised,
                   parsed, execution_success, ret, dev, sinkUp, os_version>>

\* Mutant: a missing local file is logged and the task goes on to the device.
OnAssetMissing_Continues == "rm_stale_script"

\* Where the task goes when a local file is missing: log_results_err, `return False`.
OnAssetMissing == AfterReturn

\* os.path.exists(source_path), then os.path.exists(common_script_path)
CheckAssets ==
    /\ pc = "check_assets"
    /\ \E script \in BOOLEAN, common \in BOOLEAN :
          LET logs == IF ~script THEN <<MsgScriptNotFound(script_filename)>>
                      ELSE IF ~common THEN <<MsgCommonNotFound>>
                      ELSE <<>>
          IN /\ exists' = [checked |-> TRUE, script |-> script, common |-> script /\ common]
             /\ IF ~SinkTakes(logs)
                THEN pc' = TopLevelHandler /\ UNCHANGED <<kusto, ret>>
                ELSE IF script /\ common
                THEN pc' = "rm_stale_script" /\ UNCHANGED <<kusto, ret>>
                ELSE /\ pc' = OnAssetMissing
                     /\ ret' = "false"
                     /\ kusto' = kusto \o logs
    /\ UNCHANGED <<handler, trace, fcm, fcm_entry_created, version_key, script_filename,
                   step_raised, parsed, execution_success, dev, sinkUp, os_version>>

\* handler.connection.send_command(f"sudo rm -f /tmp/{script_filename}") before the transfer
RemoveStaleScript ==
    /\ pc = "rm_stale_script"
    /\ \E raised \in BOOLEAN :
          /\ trace' = Append(trace, Ev("task", "send_command",
                                       CmdRm(TmpPath(script_filename)), raised))
          /\ pc' = IF raised THEN TopLevelHandler ELSE "rm_stale_common"
    /\ UNCHANGED <<handler, kusto, fcm, fcm_entry_created, version_key, script_filename,
                   exists, step_raised, parsed, execution_success, ret, dev, sinkUp, os_version>>

\* Mutant: the task goes from the pre-transfer removals straight to the execute step.
AfterPreTransfer_SkipsTransfer == "chmod_script"

\* Where the task goes after the two pre-transfer removals: the transfer.
AfterPreTransfer == "transfer"

\* handler.connection.send_command("sudo rm -f /tmp/exit_check_common.sh") before the transfer
RemoveStaleCommon ==
    /\ pc = "rm_stale_common"
    /\ \E raised \in BOOLEAN :
          /\ trace' = Append(trace, Ev("task", "send_command",
                                       CmdRm(TmpPath(CommonScript)), raised))
          /\ pc' = IF raised THEN TopLevelHandler ELSE AfterPreTransfer
    /\ UNCHANGED <<handler, kusto, fcm, fcm_entry_created, version_key, script_filename,
                   exists, step_raised, parsed, execution_success, ret, dev, sinkUp, os_version>>

\* scp_files_to_device: scp_put_file for each file in turn; the first that raises
\* ends the loop.  failed_at is 0 (none raised), 1 or 2.
ScpCalls(f, failed_at) ==
    IF failed_at = 1
    THEN <<Ev("scp_files_to_device", "scp_put_file", f, TRUE)>>
    ELSE <<Ev("scp_files_to_device", "scp_put_file", f, FALSE),
           Ev("scp_files_to_device", "scp_put_file", CommonScript, failed_at = 2)>>

\* Mutant: a failed transfer is logged and the task goes on to the execute step.
OnTransferFailure_Continues == "chmod_script"

\* Where the task goes when the transfer raised: log_results_err, `return False`.
OnTransferFailure == AfterReturn

\* try: scp_files_to_device(...) except Exception: log_results_err(...); return False
Transfer ==
    /\ pc = "transfer"
    /\ \E failed_at \in 0..2 :
          /\ trace' = trace \o ScpCalls(script_filename, failed_at)
          /\ IF failed_at = 0
             THEN pc' = "chmod_script" /\ UNCHANGED <<kusto, ret>>
             ELSE IF ~SinkTakes(<<MsgScpFailed>>)
             THEN pc' = TopLevelHandler /\ UNCHANGED <<kusto, ret>>
             ELSE /\ pc' = OnTransferFailure
                  /\ ret' = "false"
                  /\ kusto' = Append(kusto, MsgScpFailed)
    /\ UNCHANGED <<handler, fcm, fcm_entry_created, version_key, script_filename, exists,
                   step_raised, parsed, execution_success, dev, sinkUp, os_version>>

(***************************************************************************)
(* run_bash_script                                                         *)
(***************************************************************************)
\* Mutant: an exception of the execute step leaves run_bash_script.
OnExecuteRaise_Aborts == "except"

\* Where run_bash_script goes when a command of its try block raised: the handler
\* logs and falls through to the results read.
OnExecuteRaise == "parse"

\* The results file after a command: "none" leaves it alone.
DevAfter(effect, raised) ==
    CASE effect = "rm_results" -> AfterRm(dev, raised)
      [] effect = "run" -> AfterRun(dev)
      [] OTHER -> {dev}

\* One send_command inside run_bash_script's try block.
ExecStep(at, cmd, next, effect) ==
    /\ pc = at
    /\ \E raised \in BOOLEAN :
          /\ trace' = Append(trace, Ev("run_bash_script", "send_command", cmd, raised))
          /\ step_raised' = (step_raised \/ raised)
          /\ dev' \in DevAfter(effect, raised)
          /\ IF ~raised THEN pc' = next /\ UNCHANGED kusto
             ELSE IF SinkTakes(<<MsgExecFailed>>)
             THEN pc' = OnExecuteRaise /\ kusto' = Append(kusto, MsgExecFailed)
             ELSE pc' = TopLevelHandler /\ UNCHANGED kusto
    /\ UNCHANGED <<handler, fcm, fcm_entry_created, version_key, script_filename, exists,
                   parsed, execution_success, ret, sinkUp, os_version>>

\* send_command(f"sudo chmod +x /tmp/{script_filename}")
ChmodScript ==
    ExecStep("chmod_script", CmdChmod(TmpPath(script_filename)), "chmod_common", "none")

\* send_command("sudo chmod +x /tmp/exit_check_common.sh")
ChmodCommon ==
    ExecStep("chmod_common", CmdChmod(TmpPath(CommonScript)), "rm_old_results", "none")

\* send_command(f"sudo rm -f {EXIT_CHECK_RESULTS_JSON}")
RemoveOldResults ==
    ExecStep("rm_old_results", CmdRmResults, "run_script", "rm_results")

\* send_command(f"sudo bash /tmp/{script_filename}", max_loops=600, delay_factor=10)
RunScript ==
    ExecStep("run_script", CmdBash(TmpPath(script_filename)), "parse", "run")

\* The messages run_bash_script logs after the results read.
ScriptReport(f, success, results) ==
    IF success
    THEN IF Truthy(results) THEN <<MsgScriptPassed(f, results)>> ELSE <<>>
    ELSE IF Truthy(results) THEN <<MsgScriptFailedWith(f, results)>>
         ELSE <<MsgScriptFailed(f)>>

\* Mutant: the task goes from run_bash_script straight to the closing change entry.
AfterExecute_SkipsCleanup == "fcm_close"

\* Where the task goes when run_bash_script returned: cleanup_script.
AfterExecute == "cleanup_script"

\* success, results = parse_exit_check_results(...), then the report and the return
\* of run_bash_script.  prefixes: what the channel may put before the output.
ReadResultsVia(prefixes) ==
    /\ pc = "parse"
    /\ \E chan \in {[raised |-> TRUE, out |-> <<>>]}
                   \cup {[raised |-> FALSE, out |-> p \o CatText(dev)] : p \in prefixes} :
          LET o == parse_exit_check_results(chan)
          IN /\ trace' = Append(trace, Ev("parse_exit_check_results", "send_command",
                                          CmdCat, chan.raised))
             /\ IF sinkUp
                THEN /\ parsed' = [called |-> TRUE, escaped |-> FALSE, decode |-> o.decode,
                                   success |-> o.success, results |-> o.results,
                                   output |-> o.output,
                                   origin |-> IF chan.raised THEN "none" ELSE dev.origin]
                     /\ kusto' = kusto \o o.logs
                                       \o ScriptReport(script_filename, o.success, o.results)
                     /\ execution_success' = o.success
                     /\ pc' = AfterExecute
                ELSE /\ parsed' = [NotParsed EXCEPT !.called = TRUE, !.escaped = TRUE,
                                                    !.output = o.output,
                                                    !.origin = IF chan.raised THEN "none"
                                                               ELSE dev.origin]
                     /\ pc' = TopLevelHandler
                     /\ UNCHANGED <<kusto, execution_success>>
    /\ UNCHANGED <<handler, fcm, fcm_entry_created, version_key, script_filename, exists,
                   step_raised, ret, dev, sinkUp, os_version>>

ReadResults == ReadResultsVia(EchoPrefixes)

(***************************************************************************)
(* cleanup_script                                                          *)
(***************************************************************************)
\* Mutant: an exception of a cleanup command leaves cleanup_script.
OnCleanupRaise_Escalates == "except"

\* Where cleanup_script goes when a command raised: the handler logs and
\* cleanup_script returns to the task.
OnCleanupRaise == "fcm_close"

\* One send_command inside cleanup_script's try block: a raise is logged and ends
\* cleanup_script.
CleanupStep(at, cmd, next, effect) ==
    /\ pc = at
    /\ \E raised \in BOOLEAN :
          /\ trace' = Append(trace, Ev("cleanup_script", "send_command", cmd, raised))
          /\ dev' \in DevAfter(effect, raised)
          /\ IF ~raised THEN pc' = next /\ UNCHANGED kusto
             ELSE IF SinkTakes(<<MsgCleanupFailed>>)
             THEN pc' = OnCleanupRaise /\ kusto' = Append(kusto, MsgCleanupFailed)
             ELSE pc' = TopLevelHandler /\ UNCHANGED kusto
    /\ UNCHANGED <<handler, fcm, fcm_entry_created, version_key, script_filename, exists,
                   step_raised, parsed, execution_success, ret, sinkUp, os_version>>

\* send_command(f"sudo rm -f /tmp/{script_filename}")
CleanupScript ==
    CleanupStep("cleanup_script", CmdRm(TmpPath(script_filename)), "cleanup_common", "none")

\* send_command("sudo rm -f /tmp/exit_check_common.sh")
CleanupCommon ==
    CleanupStep("cleanup_common", CmdRm(TmpPath(CommonScript)), "cleanup_results", "none")

\* send_command(f"sudo rm -f {EXIT_CHECK_RESULTS_JSON}")
CleanupResults ==
    CleanupStep("cleanup_results", CmdRmResults, "fcm_close", "rm_results")

(***************************************************************************)
(* The end of the task                                                     *)
(***************************************************************************)
\* try: if fcm_entry_created: create_fcm_entry(..., state="Completed") except: log
CloseChangeRecord ==
    /\ pc = "fcm_close"
    /\ IF fcm_entry_created
       THEN \E outcome \in FcmOutcomes :
               /\ fcm' = IF outcome = "created" THEN Append(fcm, "Completed") ELSE fcm
               /\ kusto' = IF sinkUp THEN kusto \o FcmLogs(outcome) ELSE kusto
       ELSE UNCHANGED <<fcm, kusto>>
    /\ pc' = "final"
    /\ UNCHANGED <<handler, trace, fcm_entry_created, version_key, script_filename, exists,
                   step_raised, parsed, execution_success, ret, dev, sinkUp, os_version>>

\* Mutant: the task reports success whatever the script run gave.
FinalVerdict_AlwaysTrue(success) == "true"

\* if execution_success: ... return True else: ... return False
FinalVerdict(success) == IF success THEN "true" ELSE "false"

\* if execution_success: log_results_kusto(...); return True else: ...; return False
FinalReport ==
    /\ pc = "final"
    /\ IF sinkUp
       THEN /\ kusto' = Append(kusto, IF execution_success
                                      THEN MsgFinalSuccess(script_filename, version_key)
                                      ELSE MsgFinalFailure(script_filename))
            /\ ret' = FinalVerdict(execution_success)
            /\ pc' = AfterReturn
       ELSE pc' = TopLevelHandler /\ UNCHANGED <<kusto, ret>>
    /\ UNCHANGED <<handler, trace, fcm, fcm_entry_created, version_key, script_filename,
                   exists, step_raised, parsed, execution_success, dev, sinkUp, os_version>>

\* except Exception: logger.exception(...); log_results_kusto(...); return False
TaskExcept ==
    /\ pc = "except"
    /\ IF sinkUp
       THEN kusto' = Append(kusto, MsgTaskException) /\ ret' = "false"
       ELSE UNCHANGED kusto /\ ret' = "raised"
    /\ pc' = "finally"
    /\ UNCHANGED <<handler, trace, fcm, fcm_entry_created, version_key, script_filename,
                   exists, step_raised, parsed, execution_success, dev, sinkUp, os_version>>

\* finally: try: if handler: handler.disconnect() except Exception: pass
\* (an unbound `handler` raises NameError, which the except swallows too)
TaskFinally ==
    /\ pc = "finally"
    /\ IF handler = "unbound"
       THEN UNCHANGED trace
       ELSE \E raised \in BOOLEAN :
               trace' = Append(trace, Ev("task", "disconnect", <<>>, raised))
    /\ pc' = "done"
    /\ UNCHANGED <<handler, kusto, fcm, fcm_entry_created, version_key, script_filename,
                   exists, step_raised, parsed, execution_success, ret, dev, sinkUp, os_version>>

Next ==
    \/ GetHandler \/ Connect \/ Validate \/ SelectScript \/ OpenChangeRecord
    \/ CheckAssets \/ RemoveStaleScript \/ RemoveStaleCommon \/ Transfer
    \/ ChmodScript \/ ChmodCommon \/ RemoveOldResults \/ RunScript \/ ReadResults
    \/ CleanupScript \/ CleanupCommon \/ CleanupResults
    \/ CloseChangeRecord \/ FinalReport \/ TaskExcept \/ TaskFinally

Spec == Init /\ [][Next]_vars

(***************************************************************************)
(* The results read on its own: the task stands at the results read after  *)
(* an undisturbed run, the results file holds any of a wide set of texts,  *)
(* and the channel may put any short noise before the output.              *)
(***************************************************************************)
MaxNoise == 2

StatusOpts ==
    {<<>>} \cup {<<Pair(K_overall_status, v)>> :
                    v \in {JStr(<<"PASSED">>), JStr(<<"FAILED">>), JStr(<<"passed">>), JNone}}
FailureCountOpts == {<<>>, <<Pair(K_total_failures, JNum(<<"1">>))>>}
ValidationOpts ==
    {<<>>} \cup {<<Pair(K_failed_validations, v)>> :
                    v \in {JArr(<<>>), JArr(<<Validation30, Validation31>>),
                           JArr(<<JNum(<<"1">>)>>)}}
OtherKeyOpts ==
    {<<>>, <<Pair(K_timestamp, JStr(<<"t">>))>>,
     <<Pair(<<"failed_exit_codes">>, JArr(<<JNum(<<"3", "0">>)>>))>>}

ReportValues ==
    {MkObj(o \o s \o n \o v) :
        o \in OtherKeyOpts, s \in StatusOpts, n \in FailureCountOpts, v \in ValidationOpts}

\* A report as written, cut short, followed by a newline or by the next prompt,
\* or wrapped in a list.
WrittenForms(text) ==
    {text, Truncated(text), text \o <<"\n">>, text \o <<"\n", "host# ">>,
     <<"[">> \o text \o <<"]">>}

OtherTexts ==
    { <<>>, <<"garbage no brace">>, <<"1">>, <<"[", "1", "]">>, Q("abc"), <<"null">>,
      <<"true">>, <<"0", "1">>, <<QUOTE, "a", LBRACE, "b", QUOTE>>,
      <<"cat: ", EXIT_CHECK_RESULTS_JSON, ": ", MISSING_FILE_ERROR>> }

RichContents ==
    UNION {WrittenForms(JsonDumps(r)) : r \in ReportValues} \cup OtherTexts

NoiseAtoms == {"host# ", "\n", MISSING_FILE_ERROR, LBRACE}
NoisePrefixes == UNION {[1..n -> NoiseAtoms] : n \in 0..MaxNoise}

\* The calls of an undisturbed run up to the results read.
UndisturbedTrace(f) ==
    <<Ev("task", "connect", <<>>, FALSE),
      Ev("validate", "running_os_version", <<>>, FALSE),
      Ev("task", "send_command", CmdRm(TmpPath(f)), FALSE),
      Ev("task", "send_command", CmdRm(TmpPath(CommonScript)), FALSE)>>
    \o ScpCalls(f, 0)
    \o <<Ev("run_bash_script", "send_command", CmdChmod(TmpPath(f)), FALSE),
         Ev("run_bash_script", "send_command", CmdChmod(TmpPath(CommonScript)), FALSE),
         Ev("run_bash_script", "send_command", CmdRmResults, FALSE),
         Ev("run_bash_script", "send_command", CmdBash(TmpPath(f)), FALSE)>>

UndisturbedOsVersion == <<"SONiC.", "2", "0", "2", "3", "0", "5", "3", "1", ".", "0", "1">>

InitParse ==
    /\ pc = "parse"
    /\ handler = "sonic"
    /\ version_key = FileVersion(Script202305)
    /\ script_filename = Script202305
    /\ trace = UndisturbedTrace(Script202305)
    /\ kusto = <<>>
    /\ fcm = <<"ChangeInProcess">>
    /\ fcm_entry_created = TRUE
    /\ exists = [checked |-> TRUE, script |-> TRUE, common |-> TRUE]
    /\ step_raised = FALSE
    /\ parsed = NotParsed
    /\ execution_success = FALSE
    /\ ret = "none"
    /\ dev \in {Absent} \cup {File("fresh", c) : c \in RichContents}
    /\ sinkUp = TRUE
    /\ os_version = UndisturbedOsVersion

ReadResultsNoisy == ReadResultsVia(NoisePrefixes)

NextParse == ReadResultsNoisy

SpecParse == InitParse /\ [][NextParse]_vars

(***************************************************************************)
(* Version resolution on its own: the task stands at the validation of a   *)
(* connected SONiC handler, whose version attributes may give any short    *)
(* string of digits and separators.                                        *)
(***************************************************************************)
MaxVersionLen == 7

VersionAtoms == {"1", "2", "."}
WideOsVersions == OsVersions \cup UNION {[1..n -> VersionAtoms] : n \in 0..MaxVersionLen}

InitVersion ==
    /\ pc = "validate"
    /\ handler = "sonic"
    /\ trace = <<Ev("task", "connect", <<>>, FALSE)>>
    /\ kusto = <<>>
    /\ fcm = <<>>
    /\ fcm_entry_created = FALSE
    /\ version_key = <<>>
    /\ script_filename = <<>>
    /\ exists = Unchecked
    /\ step_raised = FALSE
    /\ parsed = NotParsed
    /\ execution_success = FALSE
    /\ ret = "none"
    /\ dev = Absent
    /\ sinkUp = TRUE
    /\ os_version = <<>>

ValidateWide == ValidateFrom(WideOsVersions \cup {RAISED})

NextVersion == ValidateWide

SpecVersion == InitVersion /\ [][NextVersion]_vars

(***************************************************************************)
(* The task with a log sink that may fail: log_results_kusto is an import  *)
(* of the task, and from one step to the next it may start or stop raising.*)
(***************************************************************************)
InitSink ==
    /\ pc = "get_handler"
    /\ handler = "unbound"
    /\ trace = <<>>
    /\ kusto = <<>>
    /\ fcm = <<>>
    /\ fcm_entry_created = FALSE
    /\ version_key = <<>>
    /\ script_filename = <<>>
    /\ exists = Unchecked
    /\ step_raised = FALSE
    /\ parsed = NotParsed
    /\ execution_success = FALSE
    /\ ret = "none"
    /\ dev \in {Absent} \cup {File("stale", c) : c \in FileContents}
    /\ sinkUp \in BOOLEAN
    /\ os_version = <<>>

\* The sink starts or stops raising while the task runs.
SinkChanges ==
    /\ pc # "done"
    /\ sinkUp' = ~sinkUp
    /\ UNCHANGED <<pc, handler, trace, kusto, fcm, fcm_entry_created, version_key,
                   script_filename, exists, step_raised, parsed, execution_success, ret, dev,
                   os_version>>

NextSink == Next \/ SinkChanges

SpecSink == InitSink /\ [][NextSink]_vars

(***************************************************************************)
(* Properties                                                              *)
(***************************************************************************)
\* The remote calls made so far, by where they were made and what was sent.
Calls(site, cmd) ==
    {i \in 1..Len(trace) : trace[i].site = site /\ trace[i].arg = cmd
                           /\ trace[i].call = "send_command"}
CallsOf(call) == {i \in 1..Len(trace) : trace[i].call = call}
TransferRaised == \E i \in CallsOf("scp_put_file") : trace[i].raised
TransferSucceeded ==
    \E i \in CallsOf("scp_put_file") : trace[i].arg = CommonScript /\ ~trace[i].raised

\* The report decoded from the output that was read, when there is one.
ReadDecoded == JsonLoads(IsolatePayload(parsed.output))
ReadHasMarker == \E i \in 1..Len(parsed.output) : parsed.output[i] = "No such file or directory"
ReadReportPassed ==
    /\ parsed.decode = "ok"
    /\ ReadDecoded.val.t = "dict"
    /\ \E i \in 1..Len(ReadDecoded.val.keys) :
          /\ ReadDecoded.val.keys[i] = <<"overall_status">>
          /\ ReadDecoded.val.vals[i].t = "str"
          /\ ReadDecoded.val.vals[i].a = <<"PASSED">>

\* C1: the task returns true exactly in the runs where validation, script
\* selection, the local asset check and the transfer succeeded and the report read
\* after the execute step has overall_status "PASSED"; every other run returns false.
C1_TrueOnlyOnPassedReport ==
    pc = "done" =>
        /\ ret \in {"true", "false"}
        /\ ret = "true" <=>
              /\ version_key \in DOMAIN VERSION_SCRIPT_MAP
              /\ script_filename = VERSION_SCRIPT_MAP[version_key]
              /\ exists.script /\ exists.common
              /\ TransferSucceeded
              /\ parsed.called
              /\ ReadReportPassed
C1_Witness == pc = "done" /\ ret = "true" /\ ReadReportPassed

\* C2: parse_exit_check_results returns success = true if and only if a report was
\* decoded and its overall_status is the string "PASSED"; "FAILED", an absent key,
\* "passed" and a non-string all give false.
C2_SuccessIffPassed == parsed.called => (parsed.success <=> ReadReportPassed)
C2_Witness == parsed.called /\ parsed.success /\ parsed.decode = "ok"

\* What parse_exit_check_results returns for a text read without noise.
Alone(text) == parse_exit_check_results([raised |-> FALSE, out |-> text])
IsJsonObjectText(text) == text # <<>> /\ text[1] = "{" /\ JsonLoads(text).ok
NoBrace(text) == \A i \in 1..Len(text) : text[i] # "{"
NoMarker(text) == \A i \in 1..Len(text) : text[i] # "No such file or directory"
SameAsAlone(text) ==
    parsed.success = Alone(text).success /\ parsed.results = Alone(text).results

\* C3 as stated: any prefix without `{` before a valid JSON object gives the same
\* report and success flag as the object alone.
C3_NoiseToleranceAnyPrefix ==
    parsed.called =>
        \A k \in 0..Len(parsed.output) :
            (IsJsonObjectText(From(parsed.output, k + 1)) /\ NoBrace(SubSeq(parsed.output, 1, k)))
                => SameAsAlone(From(parsed.output, k + 1))

\* C3 amended: any prefix with neither `{` nor the missing-file message before a
\* valid JSON object gives the same report and success flag as the object alone.
C3_NoiseTolerance ==
    parsed.called =>
        \A k \in 0..Len(parsed.output) :
            (/\ IsJsonObjectText(From(parsed.output, k + 1))
             /\ NoBrace(SubSeq(parsed.output, 1, k))
             /\ NoMarker(SubSeq(parsed.output, 1, k)))
                => SameAsAlone(From(parsed.output, k + 1))
C3_Witness ==
    /\ parsed.called /\ parsed.success
    /\ Len(parsed.output) > 2 /\ parsed.output[1] = "host# " /\ parsed.output[2] = "\n"
    /\ IsJsonObjectText(From(parsed.output, 3))

\* C4: when a command of the execute step raises, the results file is still read,
\* and a report read with overall_status "PASSED" makes the task return true.
C4_ExecuteErrorFallsThrough ==
    (pc = "done" /\ step_raised) =>
        /\ parsed.called
        /\ Calls("parse_exit_check_results", CmdCat) # {}
        /\ ReadReportPassed => ret = "true"
C4_Witness == pc = "done" /\ step_raised /\ ReadReportPassed /\ ret = "true"

\* The index of the results read in the trace (0 before it).
ReadAt ==
    IF Calls("parse_exit_check_results", CmdCat) = {} THEN 0
    ELSE CHOOSE i \in Calls("parse_exit_check_results", CmdCat) : TRUE
CleanupCommands ==
    {CmdRm(TmpPath(script_filename)), CmdRm(TmpPath(CommonScript)), CmdRmResults}
IssuedAfterRead(cmd) ==
    {i \in 1..Len(trace) : i > ReadAt /\ trace[i].call = "send_command" /\ trace[i].arg = cmd}

\* C5 as stated: in every run that read the results, whatever the execute step and
\* the parse did, each of the three cleanup commands is issued exactly once after
\* the results read, and handler.disconnect is called exactly once.
C5_CleanupExactlyOnce ==
    (pc = "done" /\ parsed.called) =>
        /\ \A cmd \in CleanupCommands : Cardinality(IssuedAfterRead(cmd)) = 1
        /\ Cardinality(CallsOf("disconnect")) = 1

\* C6: on every exit path on which a handler was acquired, disconnect is called
\* exactly once, as the last call of the run, and whether or not it raises the task
\* returns the verdict it had reached: true exactly when the script run succeeded.
C6_DisconnectOnceAndLast ==
    (pc = "done" /\ handler # "unbound") =>
        /\ Cardinality(CallsOf("disconnect")) = 1
        /\ trace[Len(trace)].call = "disconnect"
        /\ ret \in {"true", "false"}
        /\ ret = "true" <=> execution_success
C6_Witness ==
    /\ pc = "done" /\ ret = "true"
    /\ trace[Len(trace)].call = "disconnect" /\ trace[Len(trace)].raised

\* C7 as stated: a change record that was opened is closed with a Completed entry
\* on every exit path of the task.
C7_ChangeRecordClosed ==
    (pc = "done" /\ fcm_entry_created) => \E i \in 1..Len(fcm) : fcm[i] = "Completed"

\* C8: an output that is empty or holds "No such file or directory" anywhere gives
\* (false, {}) and json.loads is never reached, whatever else the output holds.
C8_MissingFileShortCircuit ==
    (parsed.called /\ (parsed.output = <<>> \/ ReadHasMarker)) =>
        /\ ~parsed.success
        /\ parsed.results = EmptyDict
        /\ parsed.decode = "none"
C8_Witness ==
    /\ parsed.called /\ ReadHasMarker /\ ~parsed.success
    /\ ReadDecoded.ok /\ ReadDecoded.val.t = "dict"
    /\ HasKey(ReadDecoded.val, <<"overall_status">>)
    /\ DictGet(ReadDecoded.val, <<"overall_status">>, JNone).a = <<"PASSED">>

\* C9: a non-empty output without the missing-file message whose payload does not
\* decode to a JSON object gives (false, {}) and parse_exit_check_results returns
\* normally; what it returns is always {} or the whole decoded object.
C9_DecodeFailureTolerated ==
    parsed.called =>
        /\ (parsed.output # <<>> /\ ~ReadHasMarker
            /\ ~(ReadDecoded.ok /\ ReadDecoded.val.t = "dict")) =>
               /\ ~parsed.success
               /\ parsed.results = EmptyDict
               /\ ~parsed.escaped
               /\ pc = "cleanup_script"
        /\ \/ parsed.results = EmptyDict
           \/ parsed.decode = "ok" /\ parsed.results = ReadDecoded.val
C9_Witness ==
    /\ parsed.called /\ parsed.output # <<>> /\ ~ReadHasMarker
    /\ ReadDecoded.ok /\ ReadDecoded.val.t = "list"
    /\ parsed.results = EmptyDict /\ pc = "cleanup_script"

\* C10: when the file transfer raises, the task returns false and no command of
\* the execute step and no results read is issued.
C10_TransferFailureAborts ==
    TransferRaised =>
        /\ \A i \in 1..Len(trace) :
              trace[i].site \notin {"run_bash_script", "parse_exit_check_results"}
        /\ ~parsed.called
        /\ pc = "done" => ret = "false"
C10_Witness == pc = "done" /\ TransferRaised /\ ret = "false"

\* The messages handed to the log sink so far.
Logged(msg) == \E i \in 1..Len(kusto) : kusto[i] = msg
ValidationAborted == Logged(MsgValidationFailed)
SelectionAborted == Logged(MsgSelectFailed)
AssetMissing == exists.checked /\ ~(exists.script /\ exists.common)
DeviceTouched ==
    \E i \in 1..Len(trace) : trace[i].call \in {"send_command", "scp_put_file"}

\* C11: when the handler is not a SONiC handler, the version string has no 6-digit
\* key, the key has no script, or a local script file is missing, the task returns
\* false and no send_command and no file transfer is made in that run.
C11_NoRemoteOpsOnAbort ==
    (ValidationAborted \/ SelectionAborted \/ AssetMissing) =>
        /\ ~DeviceTouched
        /\ pc \in {"finally", "done"}
        /\ ret = "false"
C11_Witness ==
    /\ pc = "done" /\ AssetMissing /\ exists.script /\ ret = "false"
    /\ fcm = <<"ChangeInProcess">>
C11_WitnessValidation ==
    pc = "done" /\ ValidationAborted /\ Logged(MsgUnsupported(<<"2", "0", "2", "4", "0", "5">>))

\* C12 as stated: an exception that no step handles is caught at the top level: the
\* task returns one boolean, false, no exception leaves the task, and disconnect is
\* still called on a bound handler.
C12_NoExceptionEscapes ==
    pc = "done" =>
        /\ ret \in {"true", "false"}
        /\ handler # "unbound" => CallsOf("disconnect") # {}

CleanupEntered == \E i \in 1..Len(trace) : trace[i].site = "cleanup_script"
CleanupRaised == \E i \in 1..Len(trace) : trace[i].site = "cleanup_script" /\ trace[i].raised

\* C13: a cleanup command that raises never alters the verdict: in every run that
\* entered cleanup the task returns the success flag of the results parse.
C13_CleanupNeverAltersVerdict ==
    (pc = "done" /\ CleanupEntered) =>
        /\ parsed.called
        /\ ret = IF parsed.success THEN "true" ELSE "false"
C13_Witness == pc = "done" /\ CleanupRaised /\ parsed.success /\ ret = "true"

\* C14 as stated: a failure to open or to close the change record never aborts the
\* run and never changes the verdict: a run that selected a script goes on to the
\* local asset check whatever create_fcm_entry did, and a run that read the results
\* returns the success flag of the parse.
C14_ChangeRecordFailureTolerated ==
    pc = "done" =>
        /\ script_filename # <<>> => exists.checked
        /\ parsed.called => (ret = "true" <=> parsed.success)

\* The decoded object of the output that was read, when the output is one.
ReadIsObject ==
    /\ parsed.called /\ parsed.output # <<>> /\ ~ReadHasMarker
    /\ ReadDecoded.ok /\ ReadDecoded.val.t = "dict"
KeyAbsent(key) == \A i \in 1..Len(ReadDecoded.val.keys) : ReadDecoded.val.keys[i] # key
ValueAt(key) ==
    ReadDecoded.val.vals[CHOOSE i \in 1..Len(ReadDecoded.val.keys) : ReadDecoded.val.keys[i] = key]

\* The three fields of the summary message, the first message of the parse.
PosIn(msg, atom) == CHOOSE i \in 1..Len(msg) : msg[i] = atom
StatusShown == SubSeq(kusto[1], 2, PosIn(kusto[1], ", Total Failures: ") - 1)
FailuresShown ==
    SubSeq(kusto[1], PosIn(kusto[1], ", Total Failures: ") + 1, PosIn(kusto[1], ", Timestamp: ") - 1)
TimestampShown == SubSeq(kusto[1], PosIn(kusto[1], ", Timestamp: ") + 1, Len(kusto[1]))
ValidationsAreObjects ==
    KeyAbsent(<<"failed_validations">>)
    \/ /\ ValueAt(<<"failed_validations">>).t = "list"
       /\ \A i \in 1..Len(ValueAt(<<"failed_validations">>).items) :
             ValueAt(<<"failed_validations">>).items[i].t = "dict"

\* C15: for a decoded object each absent key takes its default on its own
\* (overall_status "UNKNOWN", total_failures 0, failed_validations empty, timestamp
\* "N/A"); missing keys, extra keys and a count that disagrees with the list never
\* raise (the whole object is returned); and the object {} gives success = false.
C15_FieldDefaults ==
    ReadIsObject =>
        /\ kusto # <<>> /\ kusto[1][1] = "Exit check results - Status: "
        /\ KeyAbsent(<<"overall_status">>) => StatusShown = <<"UNKNOWN">>
        /\ KeyAbsent(<<"total_failures">>) => FailuresShown = <<"0">>
        /\ KeyAbsent(<<"timestamp">>) => TimestampShown = <<"N/A">>
        /\ KeyAbsent(<<"failed_validations">>) =>
              \A i \in 1..Len(kusto) : kusto[i][1] # "Exit check failed with "
        /\ ValidationsAreObjects =>
              /\ parsed.results = ReadDecoded.val
              /\ \A i \in 1..Len(kusto) : kusto[i] # MsgReadFailed
        /\ ReadDecoded.val.keys = <<>> => ~parsed.success
C15_Witness ==
    /\ ReadIsObject /\ parsed.results = ReadDecoded.val
    /\ ReadDecoded.val.keys = <<<<"failed_exit_codes">>, <<"overall_status">>,
                                <<"total_failures">>, <<"failed_validations">>>>
    /\ ValueAt(<<"overall_status">>).a = <<"FAILED">>
    /\ ValueAt(<<"total_failures">>).a = <<"1">>
    /\ Len(ValueAt(<<"failed_validations">>).items) = 2
    /\ TimestampShown = <<"N/A">>
C15_WitnessEmpty ==
    /\ ReadIsObject /\ ReadDecoded.val.keys = <<>> /\ ~parsed.success
    /\ kusto[1] = <<"Exit check results - Status: ", "UNKNOWN", ", Total Failures: ", "0",
                    ", Timestamp: ", "N/A">>

\* What extract_version_from_os_version returned for the string that was read, as
\* the task shows it: the key it goes on with, the key of the "unsupported"
\* message, or nothing (the "unable to parse" message).
VersionResolved == pc = "select" \/ (pc = "finally" /\ kusto # <<>>)
KeyReturned ==
    IF pc = "select" THEN version_key
    ELSE IF kusto[1][1] = "Unsupported OS version: " THEN SubSeq(kusto[1], 2, 7)
    ELSE <<>>

\* The maximal runs of digits of a string: where they start and how long they are.
RunStartsAt(str, i) == str[i] \in Digits /\ (i = 1 \/ str[i - 1] \notin Digits)
RunLength(str, i) == Cardinality({j \in i..Len(str) : \A k \in i..j : str[k] \in Digits})
FirstOf(starts) == CHOOSE i \in starts : \A k \in starts : i <= k
RunsOfExactlySix(str) ==
    {i \in 1..Len(str) : RunStartsAt(str, i) /\ RunLength(str, i) = 6}
RunsOfSixOrMore(str) ==
    {i \in 1..Len(str) : RunStartsAt(str, i) /\ RunLength(str, i) >= 6}

\* C16: the key is the first run of 6 digits of the string, that is the first six
\* digits in a row, which open the first stretch of six or more digits (any 6-digit
\* substring qualifies); there is no key when the string has no six digits in a row.
C16_FirstSixDigitRun ==
    VersionResolved =>
        KeyReturned = IF RunsOfSixOrMore(os_version) = {} THEN <<>>
                      ELSE SubSeq(os_version, FirstOf(RunsOfSixOrMore(os_version)),
                                  FirstOf(RunsOfSixOrMore(os_version)) + 5)
C16_Witness ==
    /\ pc = "select" /\ version_key = <<"2", "0", "1", "8", "1", "1">>
    /\ RunsOfExactlySix(os_version) = {} /\ RunLength(os_version, 2) = 8

PreTransferRaised ==
    \E i \in 1..Len(trace) :
        trace[i].site = "task" /\ trace[i].call = "send_command" /\ trace[i].raised

\* C17 as stated: when one of the two pre-transfer `rm -f` commands raises, the run
\* is not aborted: the transfer still takes place, and after a transfer that
\* succeeded so do the execute step, the results read and the cleanup.
C17_PreTransferBestEffort ==
    (pc = "done" /\ PreTransferRaised) =>
        /\ CallsOf("scp_put_file") # {}
        /\ TransferSucceeded => (parsed.called /\ CleanupEntered)

\* The results read returned a well-formed object with overall_status "PASSED".
ReadTextPassed ==
    /\ ReadIsObject
    /\ ~KeyAbsent(<<"overall_status">>)
    /\ ValueAt(<<"overall_status">>) = JStr(<<"PASSED">>)

\* C18 as stated: a log sink call that raises is swallowed and never changes the
\* verdict: a run whose results read returned a valid PASSED report returns true,
\* whether or not the sink raises during the parse, the cleanup or the final report.
C18_SinkFailureSwallowed ==
    (pc = "done" /\ ReadTextPassed) => ret = "true"

\* The final verdict record was handed to the log sink; the change record was closed.
FinalLogged ==
    \E i \in 1..Len(kusto) : kusto[i][1] \in {"Successfully executed ", "Failed to execute "}
Closed == \E i \in 1..Len(fcm) : fcm[i] = "Completed"
CleanupOver == CleanupEntered /\ pc \in {"fcm_close", "final", "except", "finally", "done"}

\* C19 as stated: the final verdict record and the closing of the change record both
\* come after the last cleanup command, the verdict record first and the closing
\* second: the change record is never closed before the verdict is recorded.
C19_VerdictThenClosure ==
    /\ (FinalLogged \/ Closed) => CleanupOver
    /\ Closed => FinalLogged

\* C19 amended: both come after the last cleanup command, the closing of the change
\* record first and the verdict record second: the verdict is never recorded before
\* the closing step is over.
C19_ClosureThenVerdict ==
    /\ (FinalLogged \/ Closed) => CleanupOver /\ pc # "fcm_close"
    /\ FinalLogged => pc \in {"finally", "done"}
C19_Witness == pc = "final" /\ Closed /\ ~FinalLogged /\ CleanupOver

\* C20 as stated: on a JSON decode failure the message logged by
\* parse_exit_check_results ends with the output exactly as the channel returned
\* it, before the prefix is dropped and the whitespace trimmed.
C20_RawOutputInDecodeError ==
    (parsed.called /\ parsed.decode = "error") =>
        Logged(<<"Failed to parse JSON results: ", "<exception>", ". Raw output: ">>
               \o parsed.output)

\* The failure-details message of the parse, when one was logged, and its detail
\* lines (what follows the heading and its newline).
DetailMessages == {i \in 1..Len(kusto) : kusto[i][1] = "Exit check failed with "}
DetailText ==
    LET msg == kusto[CHOOSE i \in DetailMessages : TRUE]
    IN SubSeq(msg, PosIn(msg, " failure(s):") + 2, Len(msg))

\* One line per validation, in the order given: the text of exit_code and message.
RECURSIVE ExpectedLines(_)
ExpectedLines(items) ==
    IF items = <<>> THEN <<>>
    ELSE LET v == items[1]
             code == v.vals[CHOOSE i \in 1..Len(v.keys) : v.keys[i] = <<"exit_code">>].a
             message == v.vals[CHOOSE i \in 1..Len(v.keys) : v.keys[i] = <<"message">>].a
             line == <<"  - Exit Code ">> \o code \o <<": ">> \o message
         IN IF Len(items) = 1 THEN line
            ELSE line \o <<"\n">> \o ExpectedLines(Tail(items))

ReadFailedWithValidations ==
    /\ ~KeyAbsent(<<"overall_status">>)
    /\ ValueAt(<<"overall_status">>) = JStr(<<"FAILED">>)
    /\ ~KeyAbsent(<<"failed_validations">>)
    /\ ValueAt(<<"failed_validations">>).items # <<>>

\* C21: failure detail lines are logged exactly when overall_status is "FAILED" and
\* failed_validations is not empty; then there is one line per failed validation,
\* each reading "Exit Code <exit_code>: <message>", joined by newlines, in the
\* order of failed_validations.
C21_FailureDetailLines ==
    (ReadIsObject /\ ValidationsAreObjects) =>
        /\ DetailMessages # {} <=> ReadFailedWithValidations
        /\ Cardinality(DetailMessages) <= 1
        /\ DetailMessages # {} =>
              DetailText = ExpectedLines(ValueAt(<<"failed_validations">>).items)
C21_Witness ==
    /\ ReadIsObject /\ DetailMessages # {}
    /\ DetailText = <<"  - Exit Code ", "3", "0", ": ", "Leftover tunnel", "\n",
                      "  - Exit Code ", "3", "1", ": ", "BGP down">>

\* One of the four fatal categories happened: the device type, an unparseable or
\* unsupported version (all three end validation), or a missing local file.
FatalCategory == ValidationAborted \/ SelectionAborted \/ AssetMissing

\* C22 as stated: only the four fatal categories end the remote-operation sequence
\* early; after any other failure the run goes on, so a run that passed validation
\* without one of the four reaches cleanup, and the handler is released.
C22_OnlyFourCategoriesAbort ==
    (pc = "done" /\ version_key # <<>> /\ ~FatalCategory) =>
        /\ CleanupEntered
        /\ CallsOf("disconnect") # {}

\* The place of a call in the order of one invocation; 0 for a call that has none.
StepOf(e) ==
    CASE e.call = "connect" -> 1
      [] e.call = "running_os_version" -> 2
      [] e.call = "os_version" -> 3
      [] e.site = "task" /\ e.arg = CmdRm(TmpPath(script_filename)) -> 4
      [] e.site = "task" /\ e.arg = CmdRm(TmpPath(CommonScript)) -> 5
      [] e.call = "scp_put_file" /\ e.arg = script_filename -> 6
      [] e.call = "scp_put_file" /\ e.arg = CommonScript -> 7
      [] e.site = "run_bash_script" /\ e.arg = CmdChmod(TmpPath(script_filename)) -> 8
      [] e.site = "run_bash_script" /\ e.arg = CmdChmod(TmpPath(CommonScript)) -> 9
      [] e.site = "run_bash_script" /\ e.arg = CmdRmResults -> 10
      [] e.site = "run_bash_script" /\ e.arg = CmdBash(TmpPath(script_filename)) -> 11
      [] e.site = "parse_exit_check_results" /\ e.arg = CmdCat -> 12
      [] e.site = "cleanup_script" /\ e.arg = CmdRm(TmpPath(script_filename)) -> 13
      [] e.site = "cleanup_script" /\ e.arg = CmdRm(TmpPath(CommonScript)) -> 14
      [] e.site = "cleanup_script" /\ e.arg = CmdRmResults -> 15
      [] e.call = "disconnect" -> 16
      [] OTHER -> 0
Attempted(n) == \E i \in 1..Len(trace) : StepOf(trace[i]) = n

\* C23: the calls of one invocation come only in the order validate, select,
\* pre-transfer removals, transfer, execute (chmod script, chmod helper, remove old
\* results, run script), results read, cleanup: none comes twice, none before the
\* step before it was attempted, and each has returned or raised before the next.
C23_StepOrder ==
    /\ \A i \in 1..Len(trace) : StepOf(trace[i]) > 0 /\ trace[i].raised \in BOOLEAN
    /\ \A i \in 1..Len(trace) : \A j \in 1..Len(trace) :
          i < j => StepOf(trace[i]) < StepOf(trace[j])
    /\ script_filename # <<>> => Attempted(2)
    /\ Attempted(4) => script_filename # <<>>
    /\ \A n \in 5..11 : Attempted(n) => Attempted(n - 1)
    /\ Attempted(12) => Attempted(8)
    /\ \A n \in 13..15 : Attempted(n) => Attempted(n - 1)
C23_Witness ==
    /\ pc = "done" /\ Len(trace) = 15
    /\ \A n \in (1..16) \ {3} : Attempted(n)

\* The removal of the old results file returned and the script was started, both
\* before the results read.
ScriptRanBeforeRead ==
    \E i \in 1..Len(trace) : \E j \in 1..Len(trace) : \E k \in 1..Len(trace) :
        /\ i < j /\ j < k
        /\ StepOf(trace[i]) = 10 /\ ~trace[i].raised
        /\ StepOf(trace[j]) = 11
        /\ StepOf(trace[k]) = 12

\* C24: whenever the task returns true, the results file that was read was written
\* by the script run of this invocation: the old results file was removed and the
\* script was started before the results read.
C24_NoStaleVerdict ==
    (pc = "done" /\ ret = "true") =>
        /\ parsed.origin = "fresh"
        /\ ScriptRanBeforeRead

\* C25: the abort of script selection is unreachable: a version key that validation
\* returned is a key of VERSION_SCRIPT_MAP, so selection gives that key's filename
\* and "Failed to select appropriate script" is never logged.
C25_SelectAbortUnreachable ==
    /\ ~SelectionAborted
    /\ ~Logged(MsgNoMapping(version_key))
    /\ version_key # <<>> => version_key \in DOMAIN VERSION_SCRIPT_MAP
    /\ (version_key # <<>> /\ pc # "select") =>
          script_filename = VERSION_SCRIPT_MAP[version_key]
    /\ script_filename # <<>> => version_key # <<>>
C25_Witness ==
    /\ pc = "done"
    /\ version_key \in DOMAIN VERSION_SCRIPT_MAP
    /\ script_filename = VERSION_SCRIPT_MAP[version_key]
    /\ \E i \in 1..Len(trace) : trace[i].call = "scp_put_file" /\ trace[i].arg = script_filename

====
